---- MODULE Spec2Model ----
(***************************************************************************)
(* State-machine model of python/train_CNN_IMDB.py: the module-level       *)
(* script that either trains the sentence-classification CNN (training     *)
(* toggle true) or runs the evaluation branch (toggle false).              *)
(*                                                                         *)
(* Conventions.  Python lists and numpy arrays are TLA+ sequences, so the  *)
(* Python index k is the TLA+ index k + 1; values that are indices in the  *)
(* program (class index, token id) keep their zero-based Python value.     *)
(* None is the empty sequence <<>>.  Which module-level names have been    *)
(* assigned is the variable "defined"; reading a name outside it is        *)
(* Python's NameError.  An exception ends the run: pc = "error" and err    *)
(* holds the exception.                                                    *)
(***************************************************************************)
EXTENDS FiniteSets, Integers, Sequences, TLC

VARIABLES
    training,           \* line 100: the mode toggle
    model_variation,    \* line 96
    pc,                 \* position of the script
    err,                \* the uncaught exception, "" while there is none
    defined,            \* module-level names assigned so far
    num_epochs,         \* line 119
    filter_sizes,       \* line 112 / 221
    x,                  \* line 134, 139 (training); line 248, 255 (evaluation)
    y,                  \* line 134
    embedding_weights,  \* lines 137, 141
    w2v_calls,          \* number of train_word2vec invocations
    shuffle_indices,    \* line 146
    x_shuffled,         \* line 147
    y_shuffled,         \* line 148
    graph,              \* lines 163-180
    model,              \* lines 183-193: the training branch's model (its layers)
    compiled,           \* line 194
    fitted,             \* model.fit has returned (line 201)
    files,              \* files written by the run
    opened,             \* files and models read by the evaluation branch
    cnn,                \* line 241: the evaluation branch's model, as loaded
    sentences,          \* lines 217, 246
    eb,                 \* line 236: the loaded word-vector model
    sentence,           \* line 249
    todo,               \* words of the for loop of line 250 not yet visited
    pred,               \* line 258
    calls               \* calls made to confusion_matrix / show_confusion_matrix

vars == <<training, model_variation, pc, err, defined, num_epochs, filter_sizes,
          x, y, embedding_weights, w2v_calls, shuffle_indices, x_shuffled,
          y_shuffled, graph, model, compiled, fitted, files, opened, cnn,
          sentences, eb, sentence, todo, pred, calls>>

trainVars == <<num_epochs, y, embedding_weights, w2v_calls, shuffle_indices,
               x_shuffled, y_shuffled, graph, model, compiled, fitted, files>>

evalVars == <<opened, cnn, sentences, eb, sentence, todo, pred, calls>>

(***************************************************************************)
(* Bounds of the model.                                                    *)
(***************************************************************************)
MaxExamples == 2

MaxBranches == 2

MaxEpochs == 8

MaxTest == 2

MaxPad == 2

(***************************************************************************)
(* Program constants.                                                      *)
(***************************************************************************)
embedding_dim == 100

eval_embedding_dim == 20

num_filters == 150

hidden_dims == 150

configured_epochs == 7

pool_length == 2

min_word_count == 1

context == 10

\* dropout_prob = (0.25, 0.5), in percent
dropout_prob == <<25, 50>>

PAD == "<PAD/>"

KnownVariations == {"CNN-rand", "CNN-non-static", "CNN-static"}

\* The strings model_variation is drawn from: the three variants and two
\* strings that are none of them.
Variations == KnownVariations \cup {"CNN-multichannel", "cnn-rand"}

(***************************************************************************)
(* Inputs: what the helpers outside this file return.                      *)
(***************************************************************************)
\* vocabulary_inv of load_data: token id k is vocabulary_inv[k + 1]
vocabulary_inv == <<PAD, "good", "dull">>

TokenIds == 0 .. (Len(vocabulary_inv) - 1)

\* Padded training sentences (token ids, all of one length)
TrainSentencePool == {<<1, 2, 0>>, <<2, 2, 1>>}

\* One-hot labels: [1, 0] is negative, [0, 1] is positive
OneHot == {<<1, 0>>, <<0, 1>>}

\* What load_data can return as (x, y)
Corpora ==
    UNION {[x : [1 .. n -> TrainSentencePool], y : [1 .. n -> OneHot]] :
              n \in 1 .. MaxExamples}

\* Embedding matrices train_word2vec can return: a row (vector) per token id
EmbeddingMatrices ==
    {[k \in TokenIds |-> <<k + 1, 2 * k>>], [k \in TokenIds |-> <<3 - k, k>>]}

FilterWidths == {3, 4}

FilterSizeChoices ==
    UNION {[1 .. n -> FilterWidths] : n \in 1 .. MaxBranches}

EpochChoices == {configured_epochs, MaxEpochs}

\* Held-out sentences load_data_and_labels can return (lists of words)
TestSentencePool == {<<"good">>, <<"dull", "film">>}

TestSets == UNION {[1 .. n -> TestSentencePool] : n \in 0 .. MaxTest}

\* The vectors of the words a word-vector model may know
WordVector == [w \in {PAD, "good", "dull"} |->
                 IF w = PAD THEN <<0, 0>> ELSE IF w = "good" THEN <<1, 2>> ELSE <<2, 1>>]

\* What Word2Vec.load can return: a model knowing any part of that vocabulary
WordVectorModels == {[w \in K |-> WordVector[w]] : K \in SUBSET DOMAIN WordVector}

(***************************************************************************)
(* Pure helpers.                                                           *)
(***************************************************************************)
\* numpy argmax of one row: the zero-based position of the first maximum
argmax(row) ==
    (CHOOSE k \in 1 .. Len(row) :
        /\ \A j \in 1 .. Len(row) : row[j] <= row[k]
        /\ \A j \in 1 .. (k - 1) : row[j] < row[k]) - 1

\* numpy fancy indexing a[idx]: the rows of a picked by idx (one-based here)
Take(a, idx) == [i \in 1 .. Len(idx) |-> a[idx[i]]]

\* matrix[x] for an array x of token-id sentences: every id becomes its row
Rows(matrix, xs) ==
    [i \in 1 .. Len(xs) |-> [j \in 1 .. Len(xs[i]) |-> matrix[xs[i][j]]]]

\* np.random.permutation(np.arange(n)): any ordering of the n indices
permutation(n) ==
    {p \in [1 .. n -> 1 .. n] : \A i, j \in 1 .. n : p[i] = p[j] => i = j}

Max(S) == CHOOSE m \in S : \A s \in S : s <= m

Raise(e) ==
    /\ pc' = "error"
    /\ err' = e

Init ==
    /\ training \in BOOLEAN
    /\ model_variation \in Variations
    /\ pc = "start"
    /\ err = ""
    /\ defined = {"model_variation", "training"}
    /\ num_epochs = 0
    /\ filter_sizes = <<>>
    /\ x = <<>>
    /\ y = <<>>
    /\ embedding_weights = <<>>
    /\ w2v_calls = 0
    /\ shuffle_indices = <<>>
    /\ x_shuffled = <<>>
    /\ y_shuffled = <<>>
    /\ graph = <<>>
    /\ model = <<>>
    /\ compiled = FALSE
    /\ fitted = FALSE
    /\ files = {}
    /\ opened = {}
    /\ cnn = [input_shape |-> <<>>]
    /\ sentences = <<>>
    /\ eb = <<>>
    /\ sentence = <<>>
    /\ todo = <<>>
    /\ pred = <<>>
    /\ calls = <<>>

(***************************************************************************)
(* Training branch (lines 101-205).                                        *)
(***************************************************************************)
\* lines 102-124: seed and hyperparameters
SetParameters ==
    /\ pc = "start"
    /\ training = TRUE
    /\ \E n \in EpochChoices, fs \in FilterSizeChoices :
          /\ num_epochs' = n
          /\ filter_sizes' = fs
    /\ defined' = defined \cup {"embedding_dim", "filter_sizes", "num_filters",
                                "dropout_prob", "hidden_dims", "batch_size",
                                "num_epochs", "val_split", "min_word_count",
                                "context"}
    /\ pc' = "load"
    /\ UNCHANGED <<training, model_variation, err, x, y, embedding_weights,
                   w2v_calls, shuffle_indices, x_shuffled, y_shuffled, graph,
                   model, compiled, fitted, files>>
    /\ UNCHANGED evalVars

\* lines 130-134: load_data
LoadData ==
    /\ pc = "load"
    /\ \E c \in Corpora :
          /\ x' = c.x
          /\ y' = c.y
    /\ defined' = defined \cup {"neg_train_path", "pos_train_path", "x", "y",
                                "vocabulary", "vocabulary_inv"}
    /\ pc' = "dispatch"
    /\ UNCHANGED <<training, model_variation, err, num_epochs, filter_sizes,
                   embedding_weights, w2v_calls, shuffle_indices, x_shuffled,
                   y_shuffled, graph, model, compiled, fitted, files>>
    /\ UNCHANGED evalVars

\* line 136: the variants that train word vectors
UsesWord2Vec(v) == v = "CNN-non-static" \/ v = "CNN-static"

\* The dispatch with a bare else in place of line 140's elif: every other
\* string is taken for CNN-rand
IsRandOrAnythingElse(v) == TRUE

\* line 140
IsRand(v) == v = "CNN-rand"

\* lines 136-143: the model_variation dispatch
SelectEmbedding ==
    /\ pc = "dispatch"
    /\ IF UsesWord2Vec(model_variation)
       THEN \E w \in EmbeddingMatrices :
               /\ embedding_weights' = <<w>>
               /\ w2v_calls' = w2v_calls + 1
               /\ x' = IF model_variation = "CNN-static"
                       THEN Rows(embedding_weights'[1], x)
                       ELSE x
               /\ defined' = defined \cup {"embedding_weights"}
               /\ pc' = "shuffle"
               /\ err' = err
       ELSE IF IsRand(model_variation)
       THEN /\ embedding_weights' = <<>>
            /\ defined' = defined \cup {"embedding_weights"}
            /\ pc' = "shuffle"
            /\ UNCHANGED <<w2v_calls, x, err>>
       ELSE /\ Raise("ValueError: Unknown model variation")
            /\ UNCHANGED <<embedding_weights, w2v_calls, x, defined>>
    /\ UNCHANGED <<training, model_variation, num_epochs, filter_sizes, y,
                   shuffle_indices, x_shuffled, y_shuffled, graph, model,
                   compiled, fitted, files>>
    /\ UNCHANGED evalVars

\* The labels left in file order: y.argmax(axis=1) without the indexing
LabelsUnshuffled(yy, p) == [i \in 1 .. Len(p) |-> argmax(yy[i])]

\* line 148: y[shuffle_indices].argmax(axis=1)
ShuffleLabels(yy, p) == [i \in 1 .. Len(p) |-> argmax(Take(yy, p)[i])]

\* lines 146-148: one permutation, applied to x and to y
Shuffle ==
    /\ pc = "shuffle"
    /\ \E p \in permutation(Len(y)) :
          /\ shuffle_indices' = p
          /\ x_shuffled' = Take(x, p)
          /\ y_shuffled' = ShuffleLabels(y, p)
    /\ defined' = defined \cup {"shuffle_indices", "x_shuffled", "y_shuffled"}
    /\ pc' = "graph"
    /\ UNCHANGED <<training, model_variation, err, num_epochs, filter_sizes, x,
                   y, embedding_weights, w2v_calls, graph, model, compiled,
                   fitted, files>>
    /\ UNCHANGED evalVars

\* line 161: max(len(x) for x in x_shuffled)
sequence_length(xs) == Max({Len(xs[i]) : i \in 1 .. Len(xs)})

\* line 163
Input(shape) == [node |-> "Input", shape |-> shape]

\* lines 166-170
Convolution1D(fsz, in) ==
    [node |-> "Convolution1D", nb_filter |-> num_filters, filter_length |-> fsz,
     border_mode |-> "valid", activation |-> "relu", subsample_length |-> 1,
     input |-> in]

\* line 171
MaxPooling1D(in) ==
    [node |-> "MaxPooling1D", pool_length |-> pool_length, input |-> in]

\* line 172
Flatten(in) == [node |-> "Flatten", input |-> in]

\* line 176
Merge(ins) == [node |-> "Merge", mode |-> "concat", inputs |-> ins]

\* lines 164-173: the loop over filter_sizes, appending one branch per width
RECURSIVE ConvLoop(_, _, _)
ConvLoop(fs, in, convs) ==
    IF fs = <<>>
    THEN convs
    ELSE ConvLoop(Tail(fs), in,
                  Append(convs, Flatten(MaxPooling1D(Convolution1D(Head(fs), in)))))

\* The merge applied whatever the number of branches
GraphOutAlwaysMerged(fs, convs) == Merge(convs)

\* lines 175-178
GraphOut(fs, convs) == IF Len(fs) > 1 THEN Merge(convs) ELSE convs[1]

\* lines 161-180: the convolutional feature extractor
BuildGraph ==
    /\ pc = "graph"
    /\ LET graph_in == Input(<<sequence_length(x_shuffled), embedding_dim>>)
           convs == ConvLoop(filter_sizes, graph_in, <<>>)
       IN  graph' = [layer |-> "Model", input |-> graph_in, convs |-> convs,
                     output |-> GraphOut(filter_sizes, convs)]
    /\ defined' = defined \cup {"sequence_length", "graph_in", "convs", "fsz",
                                "conv", "pool", "flatten", "out", "graph"}
    /\ pc' = "model"
    /\ UNCHANGED <<training, model_variation, err, num_epochs, filter_sizes, x,
                   y, embedding_weights, w2v_calls, shuffle_indices, x_shuffled,
                   y_shuffled, model, compiled, fitted, files>>
    /\ UNCHANGED evalVars

\* lines 185-186
Embedding(seqlen, weights) ==
    [layer |-> "Embedding", input_dim |-> Len(vocabulary_inv),
     output_dim |-> embedding_dim, input_length |-> seqlen, weights |-> weights]

Dropout(p) == [layer |-> "Dropout", p |-> p]

Dense(n) == [layer |-> "Dense", output_dim |-> n]

Activation(f) == [layer |-> "Activation", activation |-> f]

\* The Embedding layer added for every variant (the guard of line 184 dropped)
EmbeddingLayersUnguarded(v, seqlen, weights) == <<Embedding(seqlen, weights)>>

\* lines 184-186: the Embedding layer is added unless the variant is CNN-static
EmbeddingLayers(v, seqlen, weights) ==
    IF ~(v = "CNN-static") THEN <<Embedding(seqlen, weights)>> ELSE <<>>

\* The first dropout added after the feature extractor instead of before it
MainLayersDropoutAfterGraph(g) ==
    <<g, Dropout(dropout_prob[1]), Dense(hidden_dims), Dropout(dropout_prob[2]),
      Activation("relu"), Dense(1), Activation("sigmoid")>>

\* lines 187-193: the layers added after the optional Embedding layer
MainLayers(g) ==
    <<Dropout(dropout_prob[1]), g, Dense(hidden_dims), Dropout(dropout_prob[2]),
      Activation("relu"), Dense(1), Activation("sigmoid")>>

\* lines 183-194: the main sequential model, then compile
BuildModel ==
    /\ pc = "model"
    /\ model' = EmbeddingLayers(model_variation, graph.input.shape[1],
                                embedding_weights) \o MainLayers(graph)
    /\ compiled' = TRUE
    /\ defined' = defined \cup {"model"}
    /\ pc' = "write_arch"
    /\ UNCHANGED <<training, model_variation, err, num_epochs, filter_sizes, x,
                   y, embedding_weights, w2v_calls, shuffle_indices, x_shuffled,
                   y_shuffled, graph, fitted, files>>
    /\ UNCHANGED evalVars

\* line 197: the name of the architecture file
ArchFileName(v) == "imdb_" \o v \o "7_arch.json"

\* line 204: the name of the weights file
WeightsFileName(v, n) == "imdb_" \o v \o ToString(n) \o ".h5"

\* lines 196-197: model.to_json() written to the architecture file
WriteArchitecture ==
    /\ pc = "write_arch"
    /\ files' = files \cup {[name |-> ArchFileName(model_variation),
                             content |-> "architecture"]}
    /\ defined' = defined \cup {"json_string"}
    /\ pc' = "fit"
    /\ UNCHANGED <<training, model_variation, err, num_epochs, filter_sizes, x,
                   y, embedding_weights, w2v_calls, shuffle_indices, x_shuffled,
                   y_shuffled, graph, model, compiled, fitted>>
    /\ UNCHANGED evalVars

\* The failure of model.fit swallowed: the script goes on to save_weights
FitFailureSwallowed ==
    /\ pc' = "save"
    /\ UNCHANGED <<err, fitted>>

\* Where the script goes when model.fit does not return: nothing catches the
\* exception, so the run ends
FitFailed ==
    /\ Raise("fit: failed or interrupted")
    /\ UNCHANGED fitted

\* lines 201-202: model.fit either returns or fails / is interrupted
Fit ==
    /\ pc = "fit"
    /\ \/ /\ fitted' = TRUE
          /\ pc' = "save"
          /\ err' = err
       \/ FitFailed
    /\ UNCHANGED <<training, model_variation, defined, num_epochs, filter_sizes,
                   x, y, embedding_weights, w2v_calls, shuffle_indices,
                   x_shuffled, y_shuffled, graph, model, compiled, files>>
    /\ UNCHANGED evalVars

\* lines 204-205: save_weights
SaveWeights ==
    /\ pc = "save"
    /\ files' = files \cup {[name |-> WeightsFileName(model_variation, num_epochs),
                             content |-> "weights"]}
    /\ defined' = defined \cup {"model_name"}
    /\ pc' = "done"
    /\ UNCHANGED <<training, model_variation, err, num_epochs, filter_sizes, x,
                   y, embedding_weights, w2v_calls, shuffle_indices, x_shuffled,
                   y_shuffled, graph, model, compiled, fitted>>
    /\ UNCHANGED evalVars

(***************************************************************************)
(* Evaluation branch (lines 210-282).                                      *)
(***************************************************************************)
\* lines 212-217: load_data_and_labels
LoadTestData ==
    /\ pc = "start"
    /\ ~(training = TRUE)
    /\ sentences' \in TestSets
    /\ defined' = defined \cup {"neg_test_path", "pos_test_path", "sentences",
                                "labels"}
    /\ pc' = "load_w2v"
    /\ UNCHANGED <<training, model_variation, err, filter_sizes, x, opened, cnn,
                   eb, sentence, todo, pred, calls>>
    /\ UNCHANGED trainVars

\* lines 232-235: the path of the persisted word-vector model
Word2VecPath(v) ==
    "word2vec_models" \o "/" \o ToString(eval_embedding_dim) \o "features_"
        \o ToString(min_word_count) \o "minwords_" \o ToString(context)
        \o "context_" \o v

\* lines 220-236: hyperparameters, then Word2Vec.load
LoadWord2Vec ==
    /\ pc = "load_w2v"
    /\ filter_sizes' = <<3, 4>>
    /\ eb' \in WordVectorModels
    /\ opened' = opened \cup {Word2VecPath(model_variation)}
    /\ defined' = defined \cup {"embedding_dim", "filter_sizes", "num_filters",
                                "dropout_prob", "hidden_dims", "min_word_count",
                                "context", "model_dir", "model_name", "eb"}
    /\ pc' = "load_cnn"
    /\ UNCHANGED <<training, model_variation, err, x, cnn, sentences, sentence,
                   todo, pred, calls>>
    /\ UNCHANGED trainVars

\* lines 238-242: model_from_json and load_weights; the architecture read from
\* the file fixes the input length, input_shape[1] of Python (the batch axis,
\* None in Python, is 0 here)
LoadCNN ==
    /\ pc = "load_cnn"
    /\ \E n \in 1 .. MaxPad : cnn' = [input_shape |-> <<0, n>>]
    /\ opened' = opened \cup {"imdb_" \o model_variation \o "7_arch.json",
                              "imdb_" \o model_variation \o "7.h5"}
    /\ defined' = defined \cup {"arch", "weights", "model"}
    /\ pc' = "pad"
    /\ UNCHANGED <<training, model_variation, err, filter_sizes, x, sentences,
                   eb, sentence, todo, pred, calls>>
    /\ UNCHANGED trainVars

\* [padding_word] * n of Python: empty when n <= 0
Repeat(w, n) == [i \in 1 .. n |-> w]

\* data_helpers.pad_sentences(sentences, sequence_length = n)
pad_sentences(ss, n) ==
    [i \in 1 .. Len(ss) |-> ss[i] \o Repeat(PAD, n - Len(ss[i]))]

\* lines 244-246
PadSentences ==
    /\ pc = "pad"
    /\ sentences' = pad_sentences(sentences, cnn.input_shape[2])
    /\ defined' = defined \cup {"pad_size"}
    /\ pc' = "first"
    /\ UNCHANGED <<training, model_variation, err, filter_sizes, x, opened, cnn,
                   eb, sentence, todo, pred, calls>>
    /\ UNCHANGED trainVars

\* lines 248-249: x = [] and sentence = sentences[0]
FirstSentence ==
    /\ pc = "first"
    /\ x' = <<>>
    /\ IF Len(sentences) = 0
       THEN /\ Raise("IndexError: list index out of range")
            /\ defined' = defined \cup {"x"}
            /\ UNCHANGED <<sentence, todo>>
       ELSE /\ sentence' = sentences[1]
            /\ todo' = sentences[1]
            /\ defined' = defined \cup {"x", "sentence"}
            /\ pc' = "lookup"
            /\ err' = err
    /\ UNCHANGED <<training, model_variation, filter_sizes, opened, cnn,
                   sentences, eb, pred, calls>>
    /\ UNCHANGED trainVars

\* eb[word] of gensim: the word's vector, KeyError when the word is unknown
Known(m, word) == word \in DOMAIN m

\* lines 251-254: try eb[word], except: eb['<PAD/>'].  The result is
\* [ok |-> TRUE, vect |-> v], or ok = FALSE when the handler's own lookup raises.
Lookup(m, word) ==
    IF Known(m, word) THEN [ok |-> TRUE, vect |-> m[word]]
    ELSE IF Known(m, PAD) THEN [ok |-> TRUE, vect |-> m[PAD]]
    ELSE [ok |-> FALSE, vect |-> <<>>]

\* lines 250-255: one iteration of the for loop
LookupWord ==
    /\ pc = "lookup"
    /\ todo # <<>>
    /\ LET r == Lookup(eb, Head(todo))
       IN  IF r.ok
           THEN /\ x' = Append(x, r.vect)
                /\ todo' = Tail(todo)
                /\ defined' = defined \cup {"word", "vect"}
                /\ UNCHANGED <<pc, err>>
           ELSE /\ Raise("KeyError: '<PAD/>'")
                /\ defined' = defined \cup {"word"}
                /\ UNCHANGED <<x, todo>>
    /\ UNCHANGED <<training, model_variation, filter_sizes, opened, cnn,
                   sentences, eb, sentence, pred, calls>>
    /\ UNCHANGED trainVars

\* The names lines 257-273 would assign were the shuffle block of lines
\* 269-273 not commented out
PredictNamesWithShuffleBlock ==
    {"pred", "test_num", "shuffle_indices", "x_shuffled", "y_shuffled"}

\* Names assigned by lines 257-258 (the shuffle block of lines 269-273 is
\* commented out)
PredictNames == {"pred"}

\* lines 257-259: predict_classes answers one class per row of x, or rejects
\* the array
Predict ==
    /\ pc = "lookup"
    /\ todo = <<>>
    /\ \/ /\ pred' \in [1 .. Len(x) -> {0, 1}]
          /\ defined' = defined \cup PredictNames
          /\ pc' = "report"
          /\ err' = err
       \/ /\ Raise("predict_classes: input rejected")
          /\ UNCHANGED <<pred, defined>>
    /\ UNCHANGED <<training, model_variation, filter_sizes, x, opened, cnn,
                   sentences, eb, sentence, todo, calls>>
    /\ UNCHANGED trainVars

\* lines 278-282: l = y_shuffled[0:test_num], then the two confusion-matrix calls
Report ==
    /\ pc = "report"
    /\ IF "y_shuffled" \notin defined
       THEN /\ Raise("NameError: name 'y_shuffled' is not defined")
            /\ UNCHANGED <<defined, calls>>
       ELSE IF "test_num" \notin defined
       THEN /\ Raise("NameError: name 'test_num' is not defined")
            /\ UNCHANGED <<defined, calls>>
       ELSE /\ calls' = calls \o <<"confusion_matrix", "show_confusion_matrix">>
            /\ defined' = defined \cup {"l"}
            /\ pc' = "done"
            /\ err' = err
    /\ UNCHANGED <<training, model_variation, filter_sizes, x, opened, cnn,
                   sentences, eb, sentence, todo, pred>>
    /\ UNCHANGED trainVars

Next ==
    \/ SetParameters
    \/ LoadData
    \/ SelectEmbedding
    \/ Shuffle
    \/ BuildGraph
    \/ BuildModel
    \/ WriteArchitecture
    \/ Fit
    \/ SaveWeights
    \/ LoadTestData
    \/ LoadWord2Vec
    \/ LoadCNN
    \/ PadSentences
    \/ FirstSentence
    \/ LookupWord
    \/ Predict
    \/ Report

Spec == Init /\ [][Next]_vars

(***************************************************************************)
(* Properties.                                                             *)
(***************************************************************************)
UnknownVariation == model_variation \notin KnownVariations

\* C1: a training run with a model_variation other than the three variants
\* ends in ValueError('Unknown model variation') at the dispatch: it never
\* reaches the shuffle, builds, compiles or fits no model, writes no file, and
\* takes no variant in its place (embedding_weights is never assigned).
C1_UnknownVariationFailsFast ==
    (training /\ UnknownVariation) =>
        /\ pc \in {"start", "load", "dispatch", "error"}
        /\ pc = "error" => err = "ValueError: Unknown model variation"
        /\ {"embedding_weights", "shuffle_indices", "x_shuffled", "y_shuffled",
            "graph", "model"} \cap defined = {}
        /\ shuffle_indices = <<>>
        /\ w2v_calls = 0
        /\ ~compiled
        /\ ~fitted
        /\ files = {}

C1_Witness ==
    /\ training
    /\ UnknownVariation
    /\ pc = "error"
    /\ err = "ValueError: Unknown model variation"
    /\ "x" \in defined

\* The class index of a one-hot label: the zero-based position of its 1
ClassIndex(row) == (CHOOSE c \in 1 .. Len(row) : row[c] = 1) - 1

\* C2: after the shuffle, shuffle_indices is one permutation of the example
\* indices and both arrays follow it: x_shuffled[i] is x[p[i]] and y_shuffled[i]
\* is the class index of y[p[i]], so every example appears exactly once with its
\* own label, for every variant (x being the rewritten array for CNN-static).
C2_ShufflePreservesPairs ==
    "y_shuffled" \in defined =>
        /\ Len(shuffle_indices) = Len(y)
        /\ Len(x_shuffled) = Len(y)
        /\ Len(y_shuffled) = Len(y)
        /\ Len(x) = Len(y)
        /\ \A k \in 1 .. Len(y) :
              Cardinality({i \in 1 .. Len(y) : shuffle_indices[i] = k}) = 1
        /\ \A i \in 1 .. Len(y) :
              /\ x_shuffled[i] = x[shuffle_indices[i]]
              /\ y_shuffled[i] = ClassIndex(y[shuffle_indices[i]])

C2_Witness ==
    /\ "y_shuffled" \in defined
    /\ model_variation = "CNN-static"
    /\ Len(y) = 2
    /\ shuffle_indices = <<2, 1>>
    /\ x[1] # x[2]
    /\ y[1] # y[2]
    /\ y_shuffled = <<ClassIndex(y[2]), ClassIndex(y[1])>>

\* C3: a completed training run has written exactly the architecture file
\* 'imdb_' + v + str(n) + '_arch.json' and the weights file
\* 'imdb_' + v + str(n) + '.h5', v the variant and n the configured epoch count.
C3_ArtifactsNamedFromVariantAndEpochs ==
    (training /\ pc = "done") =>
        files = {[name |-> "imdb_" \o model_variation \o ToString(num_epochs)
                              \o "_arch.json",
                  content |-> "architecture"],
                 [name |-> "imdb_" \o model_variation \o ToString(num_epochs)
                              \o ".h5",
                  content |-> "weights"]}

\* C4 as stated: in a training run no file is written before model.fit has
\* completed.
C4_NoArtifactBeforeFitCompletes ==
    (training /\ ~fitted) => files = {}

ArchFile == [name |-> ArchFileName(model_variation), content |-> "architecture"]

\* C4 amended: the weights file is written only after model.fit has completed;
\* the architecture file is written after compile and before model.fit, so while
\* fitting, and after a run that fails or is interrupted during fitting, the
\* architecture file is the one file on disk.
C4_WeightsOnlyAfterFit ==
    training =>
        /\ ~fitted => \A f \in files : f.content # "weights"
        /\ files # {} => compiled
        /\ pc = "fit" => files = {ArchFile}
        /\ err = "fit: failed or interrupted" => files = {ArchFile}
        /\ pc = "done" => fitted /\ Cardinality(files) = 2

C4_Witness ==
    /\ training
    /\ pc = "error"
    /\ err = "fit: failed or interrupted"
    /\ ~fitted
    /\ files = {ArchFile}

\* C5: in the evaluation's lookup loop no lookup raises, and the vector
\* appended for each visited word is the word's own vector when the
\* word-vector model knows the word and the fallback (pad) vector otherwise.
C5_LookupNeverRaises ==
    (~training /\ "sentence" \in defined) =>
        /\ err # "KeyError: '<PAD/>'"
        /\ \A k \in 1 .. Len(x) :
              x[k] = IF sentence[k] \in DOMAIN eb THEN eb[sentence[k]] ELSE eb[PAD]

FeatureExtractorAt(i) == model[i].layer = "Model"

\* C6 as stated: the layers after the feature extractor are dropout(p[0]),
\* dense(hidden_dims), dropout(p[1]), relu, dense(1), sigmoid, in this order.
C6_DropoutFollowsFeatureExtractor ==
    (training /\ "model" \in defined) =>
        \E g \in 1 .. Len(model) :
            /\ FeatureExtractorAt(g)
            /\ SubSeq(model, g + 1, Len(model)) =
                  <<Dropout(dropout_prob[1]), Dense(hidden_dims),
                    Dropout(dropout_prob[2]), Activation("relu"), Dense(1),
                    Activation("sigmoid")>>

\* C6 amended: the feature extractor occurs once in the model; the layer right
\* before it is dropout(p[0]), preceded by nothing but the Embedding layer when
\* there is one; the layers after it are dense(hidden_dims), dropout(p[1]),
\* relu, dense(1), sigmoid, in this order, and nothing else.
C6_DropoutPrecedesFeatureExtractor ==
    (training /\ "model" \in defined) =>
        \E g \in 2 .. Len(model) :
            /\ FeatureExtractorAt(g)
            /\ model[g] = graph
            /\ \A i \in 1 .. Len(model) : FeatureExtractorAt(i) => i = g
            /\ model[g - 1] = Dropout(dropout_prob[1])
            /\ g \in {2, 3}
            /\ g = 3 => model[1].layer = "Embedding"
            /\ SubSeq(model, g + 1, Len(model)) =
                  <<Dense(hidden_dims), Dropout(dropout_prob[2]),
                    Activation("relu"), Dense(1), Activation("sigmoid")>>

C6_Witness ==
    /\ training
    /\ "model" \in defined
    /\ Len(model) = 8
    /\ model[2].layer = "Dropout"
    /\ model[3].layer = "Model"
    /\ model[4].layer = "Dense"

IsBranch(b, width, in) ==
    /\ b.node = "Flatten"
    /\ b.input.node = "MaxPooling1D"
    /\ b.input.pool_length = 2
    /\ b.input.input.node = "Convolution1D"
    /\ b.input.input.activation = "relu"
    /\ b.input.input.filter_length = width
    /\ b.input.input.input = in

\* C7: the feature extractor has one convolution(relu) -> max-pool(2) -> flatten
\* branch per entry of filter_sizes, in the order of filter_sizes, each reading
\* the extractor's one input; its output is the concatenating merge of all the
\* branches when there are several and the one branch itself when there is one.
C7_OneBranchPerFilterWidth ==
    (training /\ "graph" \in defined) =>
        /\ Len(filter_sizes) >= 1
        /\ graph.input.node = "Input"
        /\ Len(graph.convs) = Len(filter_sizes)
        /\ \A i \in 1 .. Len(filter_sizes) :
              IsBranch(graph.convs[i], filter_sizes[i], graph.input)
        /\ Len(filter_sizes) > 1 =>
              /\ graph.output.node = "Merge"
              /\ graph.output.mode = "concat"
              /\ graph.output.inputs = graph.convs
        /\ Len(filter_sizes) = 1 =>
              /\ graph.output.node = "Flatten"
              /\ graph.output = graph.convs[1]

C7_Witness ==
    /\ training
    /\ "graph" \in defined
    /\ filter_sizes = <<4, 3>>
    /\ graph.output.node = "Merge"
    /\ graph.output.inputs[1].input.input.filter_length = 4
    /\ graph.output.inputs[2].input.input.filter_length = 3

NoEmbeddingLayer == \A i \in 1 .. Len(model) : model[i].layer # "Embedding"

C8_State ==
    training =>
        /\ "embedding_weights" \in defined =>
              /\ model_variation = "CNN-rand" =>
                    embedding_weights = <<>> /\ w2v_calls = 0
              /\ model_variation # "CNN-rand" =>
                    /\ Len(embedding_weights) = 1
                    /\ embedding_weights[1] \in EmbeddingMatrices
                    /\ w2v_calls = 1
        /\ "model" \in defined =>
              /\ model_variation = "CNN-static" =>
                    /\ model[1] = Dropout(dropout_prob[1])
                    /\ NoEmbeddingLayer
              /\ model_variation # "CNN-static" =>
                    /\ model[1].layer = "Embedding"
                    /\ model[1].weights = embedding_weights
                    /\ \A i \in 2 .. Len(model) : model[i].layer # "Embedding"

C8_Step ==
    training =>
        /\ (pc = "dispatch" /\ pc' = "shuffle") =>
              IF model_variation = "CNN-static"
              THEN x' = [i \in 1 .. Len(x) |->
                           [j \in 1 .. Len(x[i]) |-> embedding_weights'[1][x[i][j]]]]
              ELSE x' = x
        /\ pc \notin {"load", "dispatch"} => x' = x

\* C8: CNN-static replaces the token ids of x by their rows of the trained
\* matrix once, at the dispatch and so before the shuffle, and its model has no
\* Embedding layer and starts with the dropout; CNN-non-static keeps x and its
\* first layer is the Embedding layer holding the trained matrix; CNN-rand
\* keeps x, never calls train_word2vec, and its first layer is the Embedding
\* layer with weights None.
C8_EmbeddingFollowsVariant == [] C8_State /\ [][C8_Step]_vars

C8_Witness ==
    /\ training
    /\ model_variation = "CNN-static"
    /\ "model" \in defined
    /\ w2v_calls = 1
    /\ x_shuffled[1][1] = embedding_weights[1][2]
    /\ model[1].layer = "Dropout"

\* C9: once the evaluation has predicted, every held-out sentence has been
\* embedded and pred holds one class per held-out sentence.
C9_OnePredictionPerSentence ==
    (~training /\ "pred" \in defined) =>
        /\ Len(x) = Len(sentences)
        /\ Len(pred) = Len(sentences)

\* C10: on the evaluation branch y_shuffled and test_num are never assigned,
\* so a run that gets past the prediction ends in the NameError of line 278,
\* the branch never completes, and neither confusion_matrix nor
\* show_confusion_matrix is called.
C10_EvaluationEndsInNameError ==
    ~training =>
        /\ "y_shuffled" \notin defined
        /\ "test_num" \notin defined
        /\ calls = <<>>
        /\ pc # "done"
        /\ (pc = "error" /\ "pred" \in defined) =>
              err = "NameError: name 'y_shuffled' is not defined"
        /\ "pred" \in defined => pc \in {"report", "error"}

C10_Witness ==
    /\ ~training
    /\ "pred" \in defined
    /\ pc = "error"
    /\ err = "NameError: name 'y_shuffled' is not defined"
    /\ calls = <<>>

====
